---- MODULE Spec2Model ----
(***************************************************************************)
(* Model of the push_files tool of git-mcp-server on the GitHub adapter:   *)
(* ToolRegistry.execute validates the input against the tool schema and    *)
(* calls RepositoryProvider.commit, which talks to the GitHub REST API     *)
(* through GitHubClient.request.  Every awaited request is one step: the   *)
(* backend answers (or the request times out / fails) and the continuation *)
(* of commit() runs until it has issued its next request(s).               *)
(***************************************************************************)
EXTENDS Integers, Naturals, Sequences, FiniteSets, TLC

\* ------------------------------------------------------------------ bounds
MaxActions == 2
NumPaths == 2

\* ------------------------------------------------------------ value spaces
Calls == {1, 2}
Paths == 1..NumPaths
Branches == {"main", "feature"}
Undef == "undefined"

\* fileActionSchema: action, path, optional content, optional previous_path
\* (a create or an update carries content, a delete or a move does not)
FileActions ==
    [action : {"create", "update"}, path : Paths,
     content : {"hi"}, previous_path : {0}]
    \cup [action : {"delete"}, path : Paths, content : {Undef}, previous_path : {0}]
    \cup {a \in [action : {"move"}, path : Paths, content : {Undef},
                 previous_path : Paths] : a.previous_path # a.path}

ActionLists == UNION {[1..n -> FileActions] : n \in 0..MaxActions}

\* push_files input: the target branch, the optional base_branch, the actions
Inputs ==
    {in \in [branch : Branches, base_branch : {Undef, "main"}, actions : ActionLists] :
        in.base_branch = Undef \/ in.branch # in.base_branch}

NoInput == [branch |-> "main", base_branch |-> Undef, actions |-> <<>>]

\* ------------------------------------------------------------ git objects
Null == <<>>
BlobSha(content) == <<content>>
NoTree == [p \in Paths |-> Null]
InitTree == [p \in Paths |-> IF p = 1 THEN BlobSha("hi") ELSE Null]
InitCommits == <<[tree |-> InitTree, parents |-> <<>>, by |-> 0]>>
InitRefs == [b \in Branches |-> IF b = "main" THEN 1 ELSE 0]

\* Buffer.from(s).toString('base64') on the modelled contents
Base64Encode(s) == IF s = "hi" THEN "aGk=" ELSE ""
Base64Decode(s) == IF s = "aGk=" THEN "hi" ELSE ""

\* action.content || ''
ContentOrEmpty(content) == IF content = Undef THEN "" ELSE content

\* --------------------------------------------------------------- variables
VARIABLES
    pc,        \* pc[c]: the await commit() of call c is suspended at
    input,     \* input[c]: the validated push_files input
    local,     \* local[c]: the local variables of commit()
    log,       \* log[c]: the requests call c has issued, in order
    answered,  \* answered[c]: the responses call c has received
    result,    \* result[c]: the ToolResult of registry.execute
    refs,      \* backend: branch name -> commit id (0: no such reference)
    commits,   \* backend: commit objects, commit id = index
    blobs,     \* backend: blob objects created through the Git Data API
    op,        \* the last single-request capability call: name, arguments, backend data
    ret,       \* what that call returned or threw
    issues,    \* backend: issues[a], the raw state of the issue on adapter a
    registry   \* the ToolRegistry: its options, its tools, the handlers invoked

\* the variables of push_files / commit, and those of the other operations
cvars == <<pc, input, local, log, answered, result, refs, commits, blobs>>
ovars == <<op, ret, issues, registry>>
vars == <<pc, input, local, log, answered, result, refs, commits, blobs,
          op, ret, issues, registry>>

Adapters == {"github", "gitlab"}
NoOp == [name |-> "none"]
NoRet == [state |-> "none"]

NoLocal ==
    [sha |-> Null, base_branch |-> Undef, base_sha |-> 0, base_tree |-> NoTree,
     blob_sha |-> <<>>, tree_items |-> <<>>, sent_base_tree |-> NoTree,
     new_tree |-> NoTree, parents |-> <<>>, new_commit |-> 0]

NoResult == [state |-> "none", code |-> "", sha |-> 0]

\* the tool definitions: a name and the read_only flag
ToolNames == {"get_issue", "create_issue", "push_files"}
ToolDefs == [name : ToolNames, read_only : BOOLEAN]

\* the tools of the server: options.tools
ServerTools ==
    {[name |-> "get_issue", read_only |-> TRUE],
     [name |-> "create_issue", read_only |-> FALSE],
     [name |-> "push_files", read_only |-> FALSE]}

\* new ToolRegistry({read_only, tool_filter}): no tool yet; the filter is the
\* set of names its regular expression matches
NewRegistry(read_only, filter) ==
    [read_only |-> read_only, filter |-> filter, tools |-> {}, invoked |-> {}]

\* the registry of a server with the default configuration, after
\* registry.registerAll(options.tools)
ServerRegistry == [NewRegistry(FALSE, ToolNames) EXCEPT !.tools = ServerTools]

\* new ToolRegistry(options), before any tool is registered
NewRegistries ==
    {NewRegistry(ro, f) : ro \in BOOLEAN, f \in {ToolNames, {"get_issue", "push_files"}}}

\* the state before any call, but for the registry
InitCalls ==
    /\ pc = [c \in Calls |-> "idle"]
    /\ input = [c \in Calls |-> NoInput]
    /\ local = [c \in Calls |-> NoLocal]
    /\ log = [c \in Calls |-> <<>>]
    /\ answered = [c \in Calls |-> {}]
    /\ result = [c \in Calls |-> NoResult]
    /\ refs = InitRefs
    /\ commits = InitCommits
    /\ blobs = {}
    /\ op = NoOp
    /\ ret = NoRet
    /\ issues = [a \in Adapters |-> "none"]

Init ==
    /\ InitCalls
    /\ registry = ServerRegistry

InitRegistry ==
    /\ InitCalls
    /\ registry \in NewRegistries

\* ------------------------------------------------------------ client layer
Req(kind, idx) == [kind |-> kind, idx |-> idx]
Res(kind, idx, out) == [kind |-> kind, idx |-> idx, out |-> out]

\* HTTP status of a backend outcome
HttpStatus(out) ==
    CASE out = "ok" -> 200
      [] out = "not_found" -> 404
      [] out = "conflict" -> 409
      [] out \in {"ref_missing", "not_ff", "ref_exists", "invalid"} -> 422
      [] out = "server_error" -> 500
      [] out = "timeout" -> 408

gitStatusToCode(status) ==
    CASE status = 400 -> "GITHUB_BAD_REQUEST"
      [] status = 401 -> "GITHUB_UNAUTHORIZED"
      [] status = 403 -> "GITHUB_FORBIDDEN"
      [] status = 404 -> "GITHUB_NOT_FOUND"
      [] status = 409 -> "GITHUB_CONFLICT"
      [] status = 422 -> "GITHUB_VALIDATION_ERROR"
      [] status = 429 -> "GITHUB_RATE_LIMITED"
      [] OTHER -> IF status >= 500 THEN "GITHUB_SERVER_ERROR" ELSE "GITHUB_ERROR"

\* request(): a non-ok response, an abort or a network error is thrown
Throws(out) == out # "ok"

\* The answers one request can get: the answer the backend state determines,
\* a server error before anything was applied, or the abort after timeout_ms
\* of a request the backend went on to process.
Answers(natural) ==
    {[out |-> natural, applied |-> (natural = "ok")],
     [out |-> "server_error", applied |-> FALSE],
     [out |-> "timeout", applied |-> (natural = "ok")]}

\* registry.execute: catch (err) -> formatError(err)
ErrorResult(code) == [state |-> "error", code |-> code, sha |-> 0]
OkResult(sha) == [state |-> "ok", code |-> "", sha |-> sha]
GitHubErrorResult(out) == ErrorResult(gitStatusToCode(HttpStatus(out)))

\* ------------------------------------------------------------ backend state
HeadTree(branch) == commits[refs[branch]].tree

\* the answer of GET /repos/{o}/{r}/contents/{path}?ref={branch}
GetContentsAnswer(path, branch) ==
    IF refs[branch] = 0 \/ HeadTree(branch)[path] = Null THEN "not_found" ELSE "ok"

\* the answer of PUT /repos/{o}/{r}/contents/{path}: the branch must exist, an
\* existing file needs its current blob hash, a new file must come without one
PutContentsAnswer(path, branch, sha) ==
    IF refs[branch] = 0 THEN "not_found"
    ELSE IF HeadTree(branch)[path] = Null
         THEN (IF sha = Null THEN "ok" ELSE "invalid")
         ELSE (IF sha = Null THEN "invalid"
               ELSE IF sha = HeadTree(branch)[path] THEN "ok" ELSE "conflict")

\* ------------------------------------------------- steps shared by all paths
\* the response to request rq arrives with outcome out; the continuation
\* issues the requests next (a sequence of requests, in order)
Continue(c, rq, out, next) ==
    /\ log' = [log EXCEPT ![c] = @ \o next]
    /\ answered' = [answered EXCEPT ![c] = @ \cup {Res(rq.kind, rq.idx, out)}]

\* the requests of call c that are in flight: issued and not yet answered
InFlight(c) ==
    {log[c][k] : k \in 1..Len(log[c])}
        \ {Req(r.kind, r.idx) : r \in answered[c]}

Finish(c, res) ==
    /\ pc' = [pc EXCEPT ![c] = "done"]
    /\ result' = [result EXCEPT ![c] = res]

\* ------------------------------------------------------------- tool layer
\* the schema without .min(1)
SchemaValidNoMin(in) == Len(in.actions) >= 0

\* schema of push_files: actions: z.array(fileActionSchema).min(1)
SchemaValid(in) == Len(in.actions) >= 1

\* the fast-path test without the check for a delete
FastPathAnyKind(actions) == Len(actions) = 1

\* provider.commit: if (params.actions.length === 1 &&
\*                      params.actions[0].action !== 'delete')
FastPath(actions) == Len(actions) = 1 /\ actions[1].action # "delete"

\* the base branch taken to be the target branch, base_branch ignored
BaseBranchIgnored(in) == in.branch

\* const base_branch = params.base_branch || params.branch
BaseBranch(in) == IF in.base_branch = Undef THEN in.branch ELSE in.base_branch

\* registry.execute('push_files', in): validation, then the handler calls
\* provider.repository.commit, which runs up to its first awaited request
Execute(c, in) ==
    /\ pc[c] = "idle"
    /\ UNCHANGED ovars
    /\ input' = [input EXCEPT ![c] = in]
    /\ UNCHANGED <<refs, commits, blobs>>
    /\ IF ~SchemaValid(in)
       THEN /\ Finish(c, ErrorResult("VALIDATION_ERROR"))
            /\ UNCHANGED <<local, log, answered>>
       ELSE /\ UNCHANGED result
            /\ IF FastPath(in.actions)
               THEN LET first == IF in.actions[1].action = "update"
                                 THEN Req("GET_contents", 0)
                                 ELSE Req("PUT_contents", 0)
                    IN  /\ pc' = [pc EXCEPT ![c] =
                              IF in.actions[1].action = "update"
                              THEN "fast_get" ELSE "fast_put"]
                        /\ log' = [log EXCEPT ![c] = <<first>>]
                        /\ UNCHANGED <<local, answered>>
               ELSE /\ pc' = [pc EXCEPT ![c] = "get_ref"]
                    /\ local' = [local EXCEPT ![c].base_branch = BaseBranch(in)]
                    /\ log' = [log EXCEPT ![c] = <<Req("GET_ref", 0)>>]
                    /\ UNCHANGED answered

\* --------------------------------------------------------------- fast path
\* try { current = await client.get(endpoint, {ref: branch}); sha = current.sha }
\* catch { /* File doesn't exist, treat as create */ }   then client.put(...)
FastGetReturn(c) ==
    /\ pc[c] = "fast_get"
    /\ UNCHANGED ovars
    /\ \E ans \in Answers(GetContentsAnswer(input[c].actions[1].path, input[c].branch)) :
         /\ local' = [local EXCEPT ![c].sha =
               IF Throws(ans.out) THEN Null
               ELSE HeadTree(input[c].branch)[input[c].actions[1].path]]
         /\ Continue(c, Req("GET_contents", 0), ans.out, <<Req("PUT_contents", 0)>>)
    /\ pc' = [pc EXCEPT ![c] = "fast_put"]
    /\ UNCHANGED <<input, result, refs, commits, blobs>>

\* const response = await client.put(endpoint, {message, content, branch, sha});
\* return mapCommit(response.commit)
FastPutReturn(c) ==
    /\ pc[c] = "fast_put"
    /\ UNCHANGED ovars
    /\ LET a == input[c].actions[1]
           b == input[c].branch
           body == Base64Encode(ContentOrEmpty(a.content))
           blob == BlobSha(Base64Decode(body))
       IN \E ans \in Answers(PutContentsAnswer(a.path, b, local[c].sha)) :
            /\ IF ans.applied
               THEN /\ commits' = Append(commits,
                         [tree |-> [HeadTree(b) EXCEPT ![a.path] = blob],
                          parents |-> <<refs[b]>>, by |-> c])
                    /\ refs' = [refs EXCEPT ![b] = Len(commits) + 1]
                    /\ blobs' = blobs \cup {blob}
               ELSE UNCHANGED <<refs, commits, blobs>>
            /\ Continue(c, Req("PUT_contents", 0), ans.out, <<>>)
            /\ Finish(c, IF Throws(ans.out) THEN GitHubErrorResult(ans.out)
                         ELSE OkResult(Len(commits) + 1))
    /\ UNCHANGED <<input, local>>

\* --------------------------------------------------------------- slow path
Pending == <<"?", "?">>

RECURSIVE History(_)
\* the commits reachable from commit id through parents (0: none)
History(id) ==
    IF id = 0 THEN {}
    ELSE {id} \cup UNION {History(commits[id].parents[k]) :
                            k \in 1..Len(commits[id].parents)}

\* the answer of GET /git/ref/heads/{branch}
GetRefAnswer(branch) == IF refs[branch] = 0 THEN "not_found" ELSE "ok"

\* the reference update sent with force: true
PatchForceTrue == TRUE

\* client.patch(.../git/refs/heads/{branch}, { sha }): no force flag is sent
PatchForce == FALSE

\* the answer of PATCH /git/refs/heads/{branch}: the reference must exist and,
\* unless forced, the update must be a fast-forward
PatchRefAnswer(branch, sha, force) ==
    IF refs[branch] = 0 THEN "ref_missing"
    ELSE IF ~force /\ refs[branch] \notin History(sha) THEN "not_ff"
    ELSE "ok"

\* the answer of POST /git/refs: the reference must not exist yet
PostRefAnswer(branch) == IF refs[branch] = 0 THEN "ok" ELSE "ref_exists"

RECURSIVE ApplyTree(_, _, _)
\* the tree POST /git/trees builds: the first n entries applied in order to
\* base_tree, a null hash removing the path
ApplyTree(base_tree, items, n) ==
    IF n = 0 THEN base_tree
    ELSE [ApplyTree(base_tree, items, n - 1) EXCEPT ![items[n].path] = items[n].sha]

\* the synchronous part of params.actions.map(async (action) => ...): a delete
\* yields its entry at once, any other action awaits its blob
InitialBlobSha(actions) ==
    [i \in 1..Len(actions) |->
        IF actions[i].action = "delete" THEN Null ELSE Pending]

\* the blob requests the map callbacks issue, in input order
RECURSIVE BlobRequests(_, _)
BlobRequests(actions, n) ==
    IF n = 0 THEN <<>>
    ELSE BlobRequests(actions, n - 1) \o
         (IF actions[n].action = "delete" THEN <<>> ELSE <<Req("POST_blobs", n)>>)

\* the value Promise.all resolves to: one entry per action, at the action's index
TreeItems(actions, blob_sha) ==
    [i \in 1..Len(actions) |-> [path |-> actions[i].path, sha |-> blob_sha[i]]]

\* a combinator that resolves as soon as one callback has returned its entry
AnyBlobDone(blob_sha) == \E i \in 1..Len(blob_sha) : blob_sha[i] # Pending

\* Promise.all resolves once every callback has returned its entry
AllBlobsDone(blob_sha) == \A i \in 1..Len(blob_sha) : blob_sha[i] # Pending

\* entries collected in the order the callbacks complete
SlotByCompletion(blob_sha, i) ==
    CHOOSE k \in 1..Len(blob_sha) :
        /\ blob_sha[k] = Pending
        /\ \A j \in 1..(k - 1) : blob_sha[j] # Pending

\* the position of Promise.all's result that the callback of action i fills
Slot(blob_sha, i) == i

\* Promise.allSettled: a rejected callback does not reject the whole
PromiseAllSettled(out) == FALSE

\* Promise.all rejects as soon as one callback rejects
PromiseAllRejects(out) == Throws(out)

\* try { ref = await client.get(.../git/ref/heads/{base_branch}) }
\* catch { throw new Error(`Branch "${base_branch}" not found`) }
GetRefReturn(c) ==
    /\ pc[c] = "get_ref"
    /\ UNCHANGED ovars
    /\ \E ans \in Answers(GetRefAnswer(local[c].base_branch)) :
         IF Throws(ans.out)
         THEN /\ Continue(c, Req("GET_ref", 0), ans.out, <<>>)
              /\ Finish(c, ErrorResult("INTERNAL_ERROR"))
              /\ UNCHANGED local
         ELSE /\ Continue(c, Req("GET_ref", 0), ans.out, <<Req("GET_commit", 0)>>)
              /\ pc' = [pc EXCEPT ![c] = "get_commit"]
              /\ local' = [local EXCEPT ![c].base_sha = refs[local[c].base_branch]]
              /\ UNCHANGED result
    /\ UNCHANGED <<input, refs, commits, blobs>>

\* base_commit = await client.get(.../git/commits/{base_sha}); then
\* Promise.all(params.actions.map(...)) starts every callback
GetCommitReturn(c) ==
    /\ pc[c] = "get_commit"
    /\ UNCHANGED ovars
    /\ \E ans \in Answers("ok") :
         IF Throws(ans.out)
         THEN /\ Continue(c, Req("GET_commit", 0), ans.out, <<>>)
              /\ Finish(c, GitHubErrorResult(ans.out))
              /\ UNCHANGED local
         ELSE LET acts == input[c].actions
                  base == commits[local[c].base_sha].tree
                  shas == InitialBlobSha(acts)
              IN  /\ UNCHANGED result
                  /\ IF AllBlobsDone(shas)
                     THEN /\ Continue(c, Req("GET_commit", 0), ans.out,
                                      <<Req("POST_trees", 0)>>)
                          /\ pc' = [pc EXCEPT ![c] = "tree"]
                          /\ local' = [local EXCEPT
                                ![c].base_tree = base,
                                ![c].blob_sha = shas,
                                ![c].tree_items = TreeItems(acts, shas),
                                ![c].sent_base_tree = base]
                     ELSE /\ Continue(c, Req("GET_commit", 0), ans.out,
                                      BlobRequests(acts, Len(acts)))
                          /\ pc' = [pc EXCEPT ![c] = "blobs"]
                          /\ local' = [local EXCEPT
                                ![c].base_tree = base,
                                ![c].blob_sha = shas]
    /\ UNCHANGED <<input, refs, commits, blobs>>

\* blob = await client.post(.../git/blobs, {content: action.content || ''}) of
\* action i; a rejection rejects Promise.all while the other requests go on
BlobReturn(c, i) ==
    /\ Req("POST_blobs", i) \in InFlight(c)
    /\ UNCHANGED ovars
    /\ LET sha == BlobSha(ContentOrEmpty(input[c].actions[i].content))
       IN \E ans \in Answers("ok") :
            /\ blobs' = IF ans.applied THEN blobs \cup {sha} ELSE blobs
            /\ IF pc[c] # "blobs"
               THEN /\ Continue(c, Req("POST_blobs", i), ans.out, <<>>)
                    /\ UNCHANGED <<pc, result, local>>
               ELSE IF PromiseAllRejects(ans.out)
               THEN /\ Continue(c, Req("POST_blobs", i), ans.out, <<>>)
                    /\ Finish(c, GitHubErrorResult(ans.out))
                    /\ UNCHANGED local
               ELSE LET shas == [local[c].blob_sha EXCEPT
                                   ![Slot(local[c].blob_sha, i)] = sha]
                    IN  /\ UNCHANGED result
                        /\ IF AllBlobsDone(shas)
                           THEN /\ Continue(c, Req("POST_blobs", i), ans.out,
                                            <<Req("POST_trees", 0)>>)
                                /\ pc' = [pc EXCEPT ![c] = "tree"]
                                /\ local' = [local EXCEPT
                                      ![c].blob_sha = shas,
                                      ![c].tree_items = TreeItems(input[c].actions, shas),
                                      ![c].sent_base_tree = local[c].base_tree]
                           ELSE /\ Continue(c, Req("POST_blobs", i), ans.out, <<>>)
                                /\ local' = [local EXCEPT ![c].blob_sha = shas]
                                /\ UNCHANGED pc
    /\ UNCHANGED <<input, refs, commits>>

\* new_tree = await client.post(.../git/trees, {base_tree, tree: tree_items})
TreeReturn(c) ==
    /\ pc[c] = "tree"
    /\ UNCHANGED ovars
    /\ \E ans \in Answers("ok") :
         IF Throws(ans.out)
         THEN /\ Continue(c, Req("POST_trees", 0), ans.out, <<>>)
              /\ Finish(c, GitHubErrorResult(ans.out))
              /\ UNCHANGED local
         ELSE /\ Continue(c, Req("POST_trees", 0), ans.out, <<Req("POST_commits", 0)>>)
              /\ pc' = [pc EXCEPT ![c] = "commit"]
              /\ local' = [local EXCEPT
                    ![c].new_tree = ApplyTree(local[c].sent_base_tree,
                                              local[c].tree_items,
                                              Len(local[c].tree_items)),
                    ![c].parents = <<local[c].base_sha>>]
              /\ UNCHANGED result
    /\ UNCHANGED <<input, refs, commits, blobs>>

\* new_commit = await client.post(.../git/commits, {message, tree, parents})
CommitReturn(c) ==
    /\ pc[c] = "commit"
    /\ UNCHANGED ovars
    /\ \E ans \in Answers("ok") :
         /\ commits' = IF ans.applied
                       THEN Append(commits, [tree |-> local[c].new_tree,
                                             parents |-> local[c].parents, by |-> c])
                       ELSE commits
         /\ IF Throws(ans.out)
            THEN /\ Continue(c, Req("POST_commits", 0), ans.out, <<>>)
                 /\ Finish(c, GitHubErrorResult(ans.out))
                 /\ UNCHANGED local
            ELSE /\ Continue(c, Req("POST_commits", 0), ans.out, <<Req("PATCH_ref", 0)>>)
                 /\ pc' = [pc EXCEPT ![c] = "patch"]
                 /\ local' = [local EXCEPT ![c].new_commit = Len(commits) + 1]
                 /\ UNCHANGED result
    /\ UNCHANGED <<input, refs, blobs>>

\* try { await client.patch(.../git/refs/heads/{branch}, {sha}) }
\* catch { /* Branch doesn't exist, create it */ await client.post(.../git/refs) }
PatchReturn(c) ==
    /\ pc[c] = "patch"
    /\ UNCHANGED ovars
    /\ \E ans \in Answers(PatchRefAnswer(input[c].branch, local[c].new_commit, PatchForce)) :
         /\ refs' = IF ans.applied
                    THEN [refs EXCEPT ![input[c].branch] = local[c].new_commit]
                    ELSE refs
         /\ IF Throws(ans.out)
            THEN /\ Continue(c, Req("PATCH_ref", 0), ans.out, <<Req("POST_refs", 0)>>)
                 /\ pc' = [pc EXCEPT ![c] = "post_ref"]
                 /\ UNCHANGED result
            ELSE /\ Continue(c, Req("PATCH_ref", 0), ans.out, <<>>)
                 /\ Finish(c, OkResult(local[c].new_commit))
    /\ UNCHANGED <<input, local, commits, blobs>>

\* await client.post(.../git/refs, {ref: `refs/heads/${branch}`, sha})
PostRefReturn(c) ==
    /\ pc[c] = "post_ref"
    /\ UNCHANGED ovars
    /\ \E ans \in Answers(PostRefAnswer(input[c].branch)) :
         /\ refs' = IF ans.applied
                    THEN [refs EXCEPT ![input[c].branch] = local[c].new_commit]
                    ELSE refs
         /\ Continue(c, Req("POST_refs", 0), ans.out, <<>>)
         /\ Finish(c, IF Throws(ans.out) THEN GitHubErrorResult(ans.out)
                      ELSE OkResult(local[c].new_commit))
    /\ UNCHANGED <<input, local, commits, blobs>>

\* ---------------------------------------------------------- specifications
\* one push_files call, any input of the schema's shape
Next ==
    \/ \E in \in Inputs : Execute(1, in)
    \/ FastGetReturn(1)
    \/ FastPutReturn(1)
    \/ GetRefReturn(1)
    \/ GetCommitReturn(1)
    \/ \E i \in 1..MaxActions : BlobReturn(1, i)
    \/ TreeReturn(1)
    \/ CommitReturn(1)
    \/ PatchReturn(1)
    \/ PostRefReturn(1)

Spec == Init /\ [][Next]_vars

\* two push_files calls in flight together, both on the slow path
RaceInputs ==
    {in \in Inputs :
        in.actions \in
          {<<[action |-> "delete", path |-> 1, content |-> Undef, previous_path |-> 0]>>,
           <<[action |-> "create", path |-> 2, content |-> "hi", previous_path |-> 0],
             [action |-> "delete", path |-> 1, content |-> Undef, previous_path |-> 0]>>}}

NextRace ==
    \E c \in Calls :
        \/ \E in \in RaceInputs : Execute(c, in)
        \/ GetRefReturn(c)
        \/ GetCommitReturn(c)
        \/ BlobReturn(c, 1)
        \/ TreeReturn(c)
        \/ CommitReturn(c)
        \/ PatchReturn(c)
        \/ PostRefReturn(c)

SpecRace == Init /\ [][NextRace]_vars

\* ------------------------------------------------------------------ claims
Started(c) == pc[c] # "idle"
Issued(c, kind) == \E k \in 1..Len(log[c]) : log[c][k].kind = kind
Got(c, kind, idx, out) == Res(kind, idx, out) \in answered[c]
Failed(c, kind) == \E r \in answered[c] : r.kind = kind /\ r.out # "ok"
NonDeletes(acts) == {i \in 1..Len(acts) : acts[i].action # "delete"}
SlowKinds == {"GET_ref", "GET_commit", "POST_blobs", "POST_trees",
              "POST_commits", "PATCH_ref", "POST_refs"}
IsPrefix(s, t) == Len(s) <= Len(t) /\ \A k \in 1..Len(s) : s[k] = t[k]

ExpectedSlowLog(c) ==
    <<Req("GET_ref", 0), Req("GET_commit", 0)>>
    \o BlobRequests(input[c].actions, Len(input[c].actions))
    \o <<Req("POST_trees", 0), Req("POST_commits", 0), Req("PATCH_ref", 0),
         Req("POST_refs", 0)>>

\* C2: the requests of a slow-path call are issued in the order reference
\* lookup, base commit, blobs, tree, commit, reference update; the lookup
\* names base_branch when given and the target branch otherwise; the tree is
\* built on the base commit's tree and the commit has the looked-up commit as
\* its only parent; each step is issued only after the step before it was
\* answered successfully, and a failed lookup ends the call with no further
\* request.
C2_SlowPathOrder ==
    \A c \in Calls :
        LET acts == input[c].actions
            bb == IF input[c].base_branch # Undef
                  THEN input[c].base_branch ELSE input[c].branch
        IN  Started(c) /\ Len(acts) >= 1 /\ ~(Len(acts) = 1 /\ acts[1].action # "delete") =>
              /\ IsPrefix(log[c], ExpectedSlowLog(c))
              /\ local[c].base_branch = bb
              /\ Issued(c, "GET_commit") =>
                    Got(c, "GET_ref", 0, "ok") /\ local[c].base_sha = InitRefs[bb]
              /\ Issued(c, "POST_blobs") => Got(c, "GET_commit", 0, "ok")
              /\ Issued(c, "POST_trees") =>
                    /\ Got(c, "GET_commit", 0, "ok")
                    /\ \A i \in NonDeletes(acts) : Got(c, "POST_blobs", i, "ok")
                    /\ local[c].sent_base_tree = InitCommits[InitRefs[bb]].tree
              /\ Issued(c, "POST_commits") =>
                    /\ Got(c, "POST_trees", 0, "ok")
                    /\ local[c].parents = <<InitRefs[bb]>>
              /\ Issued(c, "PATCH_ref") => Got(c, "POST_commits", 0, "ok")
              /\ Failed(c, "GET_ref") =>
                    /\ log[c] = <<Req("GET_ref", 0)>>
                    /\ result[c].state = "error"

C2_Witness ==
    \E c \in Calls :
        /\ result[c].state = "ok"
        /\ input[c].base_branch = "main"
        /\ input[c].branch = "feature"
        /\ NonDeletes(input[c].actions) # {}
        /\ Issued(c, "PATCH_ref")

\* C3 as stated: at most one request of a call is in flight at any time.
C3_OneRequestInFlight ==
    \A c \in Calls : Cardinality(InFlight(c)) <= 1

\* C3 as amended: a request other than a blob creation is in flight alone;
\* the blob creations of one call are in flight together, at most one per
\* action that is not a delete, and the tree request is not issued while one
\* of them is outstanding.
C3_OnlyBlobsOverlap ==
    \A c \in Calls :
        /\ \A r \in InFlight(c) : r.kind # "POST_blobs" => InFlight(c) = {r}
        /\ Cardinality(InFlight(c)) > 1 =>
              Cardinality(InFlight(c)) <= Cardinality(NonDeletes(input[c].actions))
        /\ \A r \in InFlight(c) : r.kind = "POST_blobs" =>
              r.idx \in NonDeletes(input[c].actions)

C3_Witness ==
    \E c \in Calls :
        /\ Cardinality(InFlight(c)) >= 2
        /\ pc[c] = "blobs"

\* C4: the tree entries sent with the create-tree request are the actions in
\* input order: entry i has the path of action i; its hash is null exactly
\* when action i is a delete, for which no blob request was issued, and
\* otherwise it is the hash of the blob created from the content of action i;
\* entries with the same path are all kept.
C4_TreeEntriesInInputOrder ==
    \A c \in Calls :
        LET acts == input[c].actions
            items == local[c].tree_items
        IN  Issued(c, "POST_trees") =>
              /\ Len(items) = Len(acts)
              /\ \A i \in 1..Len(acts) :
                    /\ items[i].path = acts[i].path
                    /\ items[i].sha = Null <=> acts[i].action = "delete"
                    /\ acts[i].action = "delete" => Req("POST_blobs", i) \notin
                          {log[c][k] : k \in 1..Len(log[c])}
                    /\ acts[i].action # "delete" =>
                          /\ Got(c, "POST_blobs", i, "ok")
                          /\ items[i].sha \in blobs
                          /\ items[i].sha =
                                <<IF acts[i].content = Undef THEN "" ELSE acts[i].content>>

C4_Witness ==
    \E c \in Calls :
        /\ Issued(c, "POST_trees")
        /\ Len(local[c].tree_items) = 2
        /\ local[c].tree_items[1].path = local[c].tree_items[2].path
        /\ local[c].tree_items[1].sha # Null
        /\ local[c].tree_items[2].sha # Null
        /\ local[c].tree_items[1].sha # local[c].tree_items[2].sha

\* C5 as stated: a create-reference request is issued only when the update
\* was refused because the target reference does not exist.
C5_CreateRefOnlyWhenMissing ==
    \A c \in Calls :
        Issued(c, "POST_refs") => Got(c, "PATCH_ref", 0, "ref_missing")

\* C6: a slow-path call returns a Commit only when the lookup, the base
\* commit, every blob, the tree, the commit and the final reference update
\* or creation were all answered successfully; when a blob, tree or commit
\* creation fails the call has failed, the references are as they were, and
\* the call has issued no reference write and nothing beyond the failed step.
C6_NoRollbackHardFailure ==
    \A c \in Calls :
        LET acts == input[c].actions
        IN  Started(c) /\ Issued(c, "GET_ref") =>
              /\ result[c].state = "ok" =>
                    /\ Got(c, "GET_ref", 0, "ok")
                    /\ Got(c, "GET_commit", 0, "ok")
                    /\ \A i \in NonDeletes(acts) : Got(c, "POST_blobs", i, "ok")
                    /\ Got(c, "POST_trees", 0, "ok")
                    /\ Got(c, "POST_commits", 0, "ok")
                    /\ Got(c, "PATCH_ref", 0, "ok") \/ Got(c, "POST_refs", 0, "ok")
                    /\ refs[input[c].branch] = result[c].sha
              /\ (Failed(c, "POST_blobs") \/ Failed(c, "POST_trees")
                    \/ Failed(c, "POST_commits")) =>
                    /\ pc[c] = "done"
                    /\ result[c].state = "error"
                    /\ refs = InitRefs
                    /\ ~Issued(c, "PATCH_ref") /\ ~Issued(c, "POST_refs")
                    /\ Failed(c, "POST_blobs") => ~Issued(c, "POST_trees")
                    /\ Failed(c, "POST_trees") => ~Issued(c, "POST_commits")
                    /\ \A k \in 1..Len(log[c]) : log[c][k].kind \in
                          {"GET_ref", "GET_commit", "POST_blobs", "POST_trees",
                           "POST_commits"}

C6_Witness ==
    \E c \in Calls :
        /\ Got(c, "POST_blobs", 1, "ok")
        /\ Failed(c, "POST_commits")
        /\ blobs # {}
        /\ result[c].state = "error"

\* C7: when two calls on the same branch resolved the same base commit and
\* the backend refused the later reference update as not a fast-forward, the
\* refused call does not return a Commit and ends with a backend error, and
\* the branch of every call that returned a Commit still has that commit in
\* its history.
C7_NoLostUpdate ==
    /\ \A c \in Calls :
          Got(c, "PATCH_ref", 0, "not_ff") =>
             /\ result[c].state # "ok"
             /\ pc[c] = "done" =>
                   result[c].code \in {"GITHUB_VALIDATION_ERROR", "GITHUB_SERVER_ERROR",
                                       "GITHUB_ERROR"}
             /\ refs[input[c].branch] # local[c].new_commit
    /\ \A w \in Calls :
          result[w].state = "ok" => result[w].sha \in History(refs[input[w].branch])

C7_Witness ==
    \E c \in Calls, w \in Calls :
        /\ c # w
        /\ input[c].branch = input[w].branch
        /\ local[c].base_sha = local[w].base_sha
        /\ local[c].base_sha # 0
        /\ Got(c, "PATCH_ref", 0, "not_ff")
        /\ Got(c, "POST_refs", 0, "ref_exists")
        /\ result[c].state = "error"
        /\ result[w].state = "ok"
        /\ refs[input[w].branch] = result[w].sha

\* C8 as stated: a call whose actions contain a move is never executed
\* through the single-file content-write endpoint.
C8_MoveUsesSlowPath ==
    \A c \in Calls :
        (\E i \in 1..Len(input[c].actions) : input[c].actions[i].action = "move")
            => ~Issued(c, "PUT_contents")

\* C9: a push_files call with zero actions ends with an error and has issued
\* no backend request at all, so nothing is created or updated.
C9_ZeroActionsRejected ==
    \A c \in Calls :
        Started(c) /\ Len(input[c].actions) = 0 =>
            /\ pc[c] = "done"
            /\ result[c].state = "error"
            /\ log[c] = <<>>
            /\ refs = InitRefs /\ commits = InitCommits /\ blobs = {}

C9_Witness ==
    \E c \in Calls :
        /\ pc[c] = "done"
        /\ Len(input[c].actions) = 0
        /\ result[c].code = "VALIDATION_ERROR"

\* C10 as stated: in the fast path an update sends the write without a hash
\* only when the lookup answered that the file is absent, and a create issues
\* no lookup.
C10_HashOmittedOnlyWhenAbsent ==
    \A c \in Calls :
        LET acts == input[c].actions
        IN  Len(acts) = 1 /\ Issued(c, "PUT_contents") =>
              /\ acts[1].action = "update" /\ local[c].sha = Null =>
                    Got(c, "GET_contents", 0, "not_found")
              /\ acts[1].action = "create" => ~Issued(c, "GET_contents")

\* C11 as stated: when a backend call of an operation failed and the operation
\* ended in an error, the error carries the code derived from the HTTP status
\* of a call that failed.
C11_ErrorCodeFromHttpStatus ==
    \A c \in Calls :
        (result[c].state = "error" /\ \E r \in answered[c] : r.out # "ok") =>
            \E r \in answered[c] :
                /\ r.out # "ok"
                /\ result[c].code = gitStatusToCode(HttpStatus(r.out))

\* ======================================================================
\* The single-request operations: one backend call, the raw response run
\* through the adapter's mapper.  JavaScript booleans, null and undefined
\* are written as the strings "true", "false", "null" and "undefined".
\* ======================================================================
MaxSec == 2
MaxJobs == 2

JsNull == "null"
Truthy(v) == v \notin {Undef, JsNull, "false", ""}
Nullish(v) == v \in {Undef, JsNull}

\* a timestamp "....:SS.mmmZ" as <<SS, mmm>>; null is the empty tuple
Timestamps == {<<sec, ms>> : sec \in 0..MaxSec, ms \in {0, 500}}
MergedAt == "2024-01-15T12:00:00Z"

\* new Date(ts).getTime()
DateGetTime(ts) == ts[1] * 1000 + ts[2]

\* Math.round(x / 1000): the nearest integer, a half rounding up
MathRoundSeconds(x) == (x + 500) \div 1000

\* ---------------------------------------------------------- GitHub mappers
\* the state test on the merged flag alone
mapPullRequestStateFlagOnly(pr) ==
    IF Truthy(pr.merged) THEN "merged" ELSE pr.state

\* github/mapper.ts: if (pr.merged || pr.merged_at) return 'merged'; return pr.state
mapPullRequestState(pr) ==
    IF Truthy(pr.merged) \/ Truthy(pr.merged_at) THEN "merged" ELSE pr.state

GitHubMapPullRequest(pr) ==
    [state |-> mapPullRequestState(pr), merged_at |-> pr.merged_at]

\* github/mapper.ts mapWorkflowRunStatus
mapWorkflowRunStatus(run) ==
    IF run.status = "completed"
    THEN CASE run.conclusion = "success" -> "success"
           [] run.conclusion \in {"failure", "timed_out"} -> "failed"
           [] run.conclusion = "cancelled" -> "canceled"
           [] run.conclusion = "skipped" -> "skipped"
           [] OTHER -> "pending"
    ELSE CASE run.status = "in_progress" -> "running"
           [] OTHER -> "pending"

GitHubMapPipeline(run) == [status |-> mapWorkflowRunStatus(run)]

\* the job mapping with timed_out counted as canceled
mapJobStatusTimedOutCanceled(job) ==
    IF job.status = "completed"
    THEN CASE job.conclusion = "success" -> "success"
           [] job.conclusion = "failure" -> "failed"
           [] job.conclusion \in {"cancelled", "timed_out"} -> "canceled"
           [] job.conclusion = "skipped" -> "skipped"
           [] OTHER -> "pending"
    ELSE CASE job.status = "in_progress" -> "running"
           [] OTHER -> "pending"

\* github/mapper.ts mapJobStatus
mapJobStatus(job) ==
    IF job.status = "completed"
    THEN CASE job.conclusion = "success" -> "success"
           [] job.conclusion \in {"failure", "timed_out"} -> "failed"
           [] job.conclusion = "cancelled" -> "canceled"
           [] job.conclusion = "skipped" -> "skipped"
           [] OTHER -> "pending"
    ELSE CASE job.status = "in_progress" -> "running"
           [] OTHER -> "pending"

NoDuration == [null |-> TRUE, value |-> 0]

\* the duration clamped at zero
JobDurationClamped(job) ==
    IF job.started_at # Null /\ job.completed_at # Null
    THEN LET d == MathRoundSeconds(DateGetTime(job.completed_at)
                                   - DateGetTime(job.started_at))
         IN  [null |-> FALSE, value |-> IF d < 0 THEN 0 ELSE d]
    ELSE NoDuration

\* github/mapper.ts mapJob: let duration = null;
\* if (job.started_at && job.completed_at) duration = Math.round((end - start) / 1000)
JobDuration(job) ==
    IF job.started_at # Null /\ job.completed_at # Null
    THEN [null |-> FALSE,
          value |-> MathRoundSeconds(DateGetTime(job.completed_at)
                                     - DateGetTime(job.started_at))]
    ELSE NoDuration

GitHubMapJob(job) ==
    [id |-> job.id, status |-> mapJobStatus(job), started_at |-> job.started_at,
     finished_at |-> job.completed_at, duration |-> JobDuration(job)]

\* ---------------------------------------------------------- GitLab mappers
\* gitlab/mapper.ts mapMergeRequestState(mr.state)
mapMergeRequestState(state) ==
    CASE state = "opened" -> "open"
      [] state = "merged" -> "merged"
      [] OTHER -> "closed"

\* draft: mr.draft || mr.work_in_progress || false
mapDraftOr(mr) ==
    IF Truthy(mr.draft) THEN mr.draft
    ELSE IF Truthy(mr.work_in_progress) THEN mr.work_in_progress
    ELSE "false"

\* draft: mr.draft ?? mr.work_in_progress ?? false
mapDraft(mr) ==
    IF ~Nullish(mr.draft) THEN mr.draft
    ELSE IF ~Nullish(mr.work_in_progress) THEN mr.work_in_progress
    ELSE "false"

GitLabMapPullRequest(mr) ==
    [state |-> mapMergeRequestState(mr.state), merged_at |-> mr.merged_at,
     draft |-> mapDraft(mr)]

CanonicalStatuses == {"pending", "running", "success", "failed", "canceled", "skipped"}

\* gitlab/mapper.ts mapJobStatus(job.status)
GitLabMapJobStatus(status) ==
    IF status \in CanonicalStatuses THEN status ELSE "pending"

GitLabMapJob(job) == [id |-> job.id, status |-> GitLabMapJobStatus(job.status)]


\* ---------------------------------------------------------- raw responses
GitHubRawPullRequests ==
    [state : {"open", "closed"}, merged : {"true", "false", Undef},
     merged_at : {JsNull, MergedAt}]

GitLabRawMergeRequests ==
    [state : {"opened", "closed", "merged", "locked"}, merged_at : {JsNull, MergedAt},
     draft : {"true", "false", Undef}, work_in_progress : {"true", "false", Undef}]

RunStatuses == {"completed", "in_progress", "queued", "waiting", "pending", "requested"}
RunConclusions ==
    {"success", "failure", "timed_out", "cancelled", "skipped", "neutral", "stale",
     "action_required", JsNull}

GitHubRawRuns == [status : RunStatuses, conclusion : RunConclusions]

RawJob(status, conclusion, started_at, completed_at) ==
    [id |-> 1, status |-> status, conclusion |-> conclusion,
     started_at |-> started_at, completed_at |-> completed_at]

\* every (status, conclusion) pair, and every (started_at, completed_at) pair
GitHubRawJobs ==
    {RawJob(s, k, <<0, 0>>, Null) : s \in RunStatuses, k \in RunConclusions}
    \cup {RawJob("completed", "success", t, u) :
              t \in Timestamps \cup {Null}, u \in Timestamps \cup {Null}}

\* the jobs of the runs with more than one job
GitHubJobSample ==
    {RawJob("completed", "success", <<0, 0>>, <<1, 0>>),
     RawJob("completed", "failure", <<0, 0>>, <<1, 500>>),
     RawJob("completed", "timed_out", <<1, 0>>, <<0, 0>>),
     RawJob("in_progress", JsNull, <<0, 0>>, Null),
     RawJob("queued", JsNull, Null, Null)}

GitLabRawStatuses ==
    {"created", "pending", "running", "success", "failed", "canceled", "skipped",
     "manual"}

GitLabJobSample == {[id |-> 1, status |-> s] : s \in GitLabRawStatuses}

\* the job lists of a run: the id of a job is its position
JobLists(sample, singles) ==
    {<<j>> : j \in singles}
    \cup UNION {{[i \in 1..n |-> [f[i] EXCEPT !.id = i]] : f \in [1..n -> sample]} :
                    n \in 0..MaxJobs}

\* ---------------------------------------------------------- the operations
Idle == ret.state # "pending"
PendingRet == [state |-> "pending"]
Awaiting(name) == op.name = name /\ ret.state = "pending"
OkRet(raw, value) == [state |-> "ok", raw |-> raw, value |-> value]
\* the client throws GitHubError / GitLabError with the response status
ErrorRet(out) == [state |-> "error", status |-> HttpStatus(out)]
ReadFailures == {"not_found", "server_error", "timeout"}

\* pull_requests.get(repo, pr_number)
PullRequestsGet(a) ==
    /\ Idle
    /\ op' = [name |-> "pull_requests.get", adapter |-> a]
    /\ ret' = PendingRet
    /\ UNCHANGED <<issues, cvars, registry>>

PullRequestsGetReturn ==
    /\ Awaiting("pull_requests.get")
    /\ \/ \E out \in ReadFailures : ret' = ErrorRet(out)
       \/ /\ op.adapter = "github"
          /\ \E pr \in GitHubRawPullRequests : ret' = OkRet(pr, GitHubMapPullRequest(pr))
       \/ /\ op.adapter = "gitlab"
          /\ \E mr \in GitLabRawMergeRequests : ret' = OkRet(mr, GitLabMapPullRequest(mr))
    /\ UNCHANGED <<op, issues, cvars, registry>>

\* GitHub ci.getPipeline(repo, pipeline_id)
GetPipeline ==
    /\ Idle
    /\ op' = [name |-> "ci.getPipeline", adapter |-> "github"]
    /\ ret' = PendingRet
    /\ UNCHANGED <<issues, cvars, registry>>

GetPipelineReturn ==
    /\ Awaiting("ci.getPipeline")
    /\ \/ \E out \in ReadFailures : ret' = ErrorRet(out)
       \/ \E run \in GitHubRawRuns : ret' = OkRet(run, GitHubMapPipeline(run))
    /\ UNCHANGED <<op, issues, cvars, registry>>

\* GitHub listJobs without the status filter
GitHubJobsUnfiltered(jobs, status) == jobs

\* GitHub listJobs: if (params?.status) jobs = jobs.filter(j => mapJob(j).status === status)
GitHubJobsFilter(jobs, status) ==
    IF Truthy(status)
    THEN SelectSeq(jobs, LAMBDA j : GitHubMapJob(j).status = status)
    ELSE jobs

\* the mapped jobs in reverse order
GitHubMapJobsReversed(jobs) ==
    [i \in 1..Len(jobs) |-> GitHubMapJob(jobs[Len(jobs) + 1 - i])]

\* jobs.map(mapJob), data.map(mapJob)
GitHubMapJobs(jobs) == [i \in 1..Len(jobs) |-> GitHubMapJob(jobs[i])]
GitLabMapJobs(jobs) == [i \in 1..Len(jobs) |-> GitLabMapJob(jobs[i])]

\* GET /projects/{id}/pipelines/{id}/jobs?scope=...: the backend returns the
\* jobs of the pipeline whose status is the scope
GitLabJobsAnswer(jobs, scope) ==
    IF scope = Undef THEN jobs ELSE SelectSeq(jobs, LAMBDA j : j.status = scope)

\* ci.listJobs(repo, pipeline_id, {status})
ListJobs(a, status) ==
    /\ Idle
    /\ op' = [name |-> "ci.listJobs", adapter |-> a, status |-> status]
    /\ ret' = PendingRet
    /\ UNCHANGED <<issues, cvars, registry>>

ListJobsReturn ==
    /\ Awaiting("ci.listJobs")
    /\ \/ \E out \in ReadFailures : ret' = ErrorRet(out)
       \/ /\ op.adapter = "github"
          /\ \E jobs \in JobLists(GitHubJobSample, GitHubRawJobs) :
                 ret' = OkRet(jobs, GitHubMapJobs(GitHubJobsFilter(jobs, op.status)))
       \/ /\ op.adapter = "gitlab"
          /\ \E jobs \in JobLists(GitLabJobSample, GitLabJobSample) :
                 LET data == GitLabJobsAnswer(jobs, op.status)
                 IN  ret' = OkRet(data, GitLabMapJobs(data))
    /\ UNCHANGED <<op, issues, cvars, registry>>


\* ---------------------------------------------------------- issues
IssueStates == {Undef, "open", "closed"}

\* github/mapper.ts mapIssue: state: issue.state
GitHubMapIssue(issue) == [state |-> issue.state]

\* gitlab/mapper.ts mapIssue: state: issue.state === 'opened' ? 'open' : 'closed'
GitLabMapIssue(issue) == [state |-> IF issue.state = "opened" THEN "open" ELSE "closed"]

MapIssue(a, issue) == IF a = "github" THEN GitHubMapIssue(issue) ELSE GitLabMapIssue(issue)

\* github mapIssueUpdateParams: if (params.state !== undefined) body.state = params.state
GitHubIssueUpdateBody(params) == [state |-> params.state]

\* the state_event with close and reopen exchanged
GitLabStateEventSwapped(state) ==
    CASE state = "open" -> "close"
      [] state = "closed" -> "reopen"
      [] OTHER -> Undef

\* gitlab mapIssueUpdateParams: state_event
GitLabStateEvent(state) ==
    CASE state = "open" -> "reopen"
      [] state = "closed" -> "close"
      [] OTHER -> Undef

GitLabIssueUpdateBody(params) == [state_event |-> GitLabStateEvent(params.state)]

\* the backend applies the request it receives
NewIssueState(a) == IF a = "github" THEN "open" ELSE "opened"

GitHubApplyUpdate(state, body) == IF body.state = Undef THEN state ELSE body.state

GitLabApplyUpdate(state, body) ==
    CASE body.state_event = "close" -> "closed"
      [] body.state_event = "reopen" -> "opened"
      [] OTHER -> state

ApplyUpdate(a, state, params) ==
    IF a = "github"
    THEN GitHubApplyUpdate(state, GitHubIssueUpdateBody(params))
    ELSE GitLabApplyUpdate(state, GitLabIssueUpdateBody(params))

\* issues.create(repo, params)
IssuesCreate(a) ==
    /\ Idle
    /\ op' = [name |-> "issues.create", adapter |-> a]
    /\ ret' = PendingRet
    /\ UNCHANGED <<issues, cvars, registry>>

IssuesCreateReturn ==
    /\ Awaiting("issues.create")
    /\ \E ans \in Answers("ok") :
           LET after == IF ans.applied THEN NewIssueState(op.adapter)
                        ELSE issues[op.adapter]
           IN  /\ issues' = [issues EXCEPT ![op.adapter] = after]
               /\ ret' = IF ans.out = "ok"
                         THEN OkRet([state |-> after],
                                    MapIssue(op.adapter, [state |-> after]))
                         ELSE ErrorRet(ans.out)
    /\ UNCHANGED <<op, cvars, registry>>

\* issues.update(repo, issue_number, params)
IssuesUpdate(a, state) ==
    /\ Idle
    /\ op' = [name |-> "issues.update", adapter |-> a, state |-> state]
    /\ ret' = PendingRet
    /\ UNCHANGED <<issues, cvars, registry>>

IssuesUpdateReturn ==
    /\ Awaiting("issues.update")
    /\ \E ans \in Answers(IF issues[op.adapter] = "none" THEN "not_found" ELSE "ok") :
           LET after == IF ans.applied
                        THEN ApplyUpdate(op.adapter, issues[op.adapter], op)
                        ELSE issues[op.adapter]
           IN  /\ issues' = [issues EXCEPT ![op.adapter] = after]
               /\ ret' = IF ans.out = "ok"
                         THEN OkRet([state |-> after],
                                    MapIssue(op.adapter, [state |-> after]))
                         ELSE ErrorRet(ans.out)
    /\ UNCHANGED <<op, cvars, registry>>

NextOps ==
    \/ \E a \in Adapters : PullRequestsGet(a)
    \/ PullRequestsGetReturn
    \/ GetPipeline
    \/ GetPipelineReturn
    \/ \E a \in Adapters, s \in CanonicalStatuses \cup {Undef} : ListJobs(a, s)
    \/ ListJobsReturn
    \/ \E a \in Adapters : IssuesCreate(a)
    \/ IssuesCreateReturn
    \/ \E a \in Adapters, s \in IssueStates : IssuesUpdate(a, s)
    \/ IssuesUpdateReturn

SpecOps == Init /\ [][NextOps]_vars


\* ---------------------------------------------------------- getTree
MaxTree == 3
DefaultPage == 1
DefaultPerPage == 100

\* path strings as tuples of characters
TreePaths == {<<"a">>, <<"a", "/", "b">>, <<"a", "b">>, <<"c">>}
\* an absent path and the empty path are both falsy: the empty tuple
NoPath == <<>>
PathParams == {NoPath, <<"a">>, <<"a", "/">>, <<"c">>}
Sha40 == "0123456789abcdef0123456789abcdef01234567"
RefParams == {Undef, "feature", Sha40}

RawTreeItem(path) == [path |-> path, type |-> IF path = <<"a">> THEN "tree" ELSE "blob"]

\* the trees the backend can answer with: distinct paths in any order
RawTrees ==
    UNION {{[i \in 1..n |-> RawTreeItem(f[i])] :
                f \in {g \in [1..n -> TreePaths] :
                           \A i, j \in 1..n : i # j => g[i] # g[j]}} :
               n \in 0..MaxTree}

\* String.prototype.startsWith, endsWith('/')
StartsWith(s, prefix) ==
    /\ Len(prefix) <= Len(s)
    /\ SubSeq(s, 1, Len(prefix)) = prefix
EndsWithSlash(s) == Len(s) > 0 /\ s[Len(s)] = "/"

\* item.path.split('/').pop() || item.path
RECURSIVE LastSegment(_)
LastSegment(s) ==
    IF \A i \in 1..Len(s) : s[i] # "/" THEN s
    ELSE LastSegment(Tail(s))
PathName(path) == IF LastSegment(path) = <<>> THEN path ELSE LastSegment(path)

\* github/mapper.ts mapTreeEntry
GitHubMapTreeEntry(item) ==
    [name |-> PathName(item.path), path |-> item.path,
     type |-> IF item.type = "tree" THEN "directory" ELSE "file"]

\* data.tree.map(mapTreeEntry)
GitHubMapTreeEntries(tree) == [i \in 1..Len(tree) |-> GitHubMapTreeEntry(tree[i])]

\* const prefix = params.path.endsWith('/') ? params.path : `${params.path}/`
TreePrefix(path) == IF EndsWithSlash(path) THEN path ELSE path \o <<"/">>

\* if (params?.path) entries = entries.filter(...)
TreePathFilter(entries, path) ==
    IF path # NoPath
    THEN SelectSeq(entries,
                   LAMBDA e : StartsWith(e.path, TreePrefix(path)) \/ e.path = path)
    ELSE entries

\* Array.prototype.slice(start, end) for 0 <= start <= end
JsSlice(s, start, end) ==
    SubSeq(s, start + 1, IF end < Len(s) THEN end ELSE Len(s))

\* the slice starting at page * per_page
SliceStartNextPage(page, per_page) == page * per_page

\* const start = (page - 1) * per_page
SliceStart(page, per_page) == (page - 1) * per_page

\* page = params?.page || 1, per_page = params?.per_page || 100: an absent
\* number and 0 are both falsy, written 0
PageOf(params) == IF params.page = 0 THEN DefaultPage ELSE params.page
PerPageOf(params) == IF params.per_page = 0 THEN DefaultPerPage ELSE params.per_page

TreePage(entries, params) ==
    LET start == SliceStart(PageOf(params), PerPageOf(params))
    IN  JsSlice(entries, start, start + PerPageOf(params))

\* tree_sha === 'HEAD' || !tree_sha.match(/^[a-f0-9]{40}$/)
NeedsRef(ref) == ref # Sha40

\* heads/${tree_sha === 'HEAD' ? 'main' : tree_sha}
FirstHead(ref) == IF ref = Undef THEN "main" ELSE ref

TreePending(at, resolved) == [state |-> "pending", at |-> at, resolved |-> resolved]
TreeAt(at) == op.name = "repository.getTree" /\ ret.state = "pending" /\ ret.at = at

\* The repository getTree reads is any repository: each of its answers is drawn.
\* repository.getTree(repo, {ref, path, page, per_page})
GetTree(params) ==
    /\ Idle
    /\ op' = [name |-> "repository.getTree", adapter |-> "github", ref |-> params.ref,
              path |-> params.path, page |-> params.page, per_page |-> params.per_page]
    /\ ret' = IF NeedsRef(params.ref) THEN TreePending("GET_ref", Undef)
              ELSE TreePending("GET_tree", params.ref)
    /\ UNCHANGED <<issues, cvars, registry>>

\* try { GET git/ref/heads/... } catch { GET git/ref/heads/master }
GetTreeRefReturn ==
    /\ TreeAt("GET_ref")
    /\ \/ ret' = TreePending("GET_tree", FirstHead(op.ref))
       \/ ret' = TreePending("GET_master", Undef)
    /\ UNCHANGED <<op, issues, cvars, registry>>

GetTreeMasterReturn ==
    /\ TreeAt("GET_master")
    /\ \/ ret' = TreePending("GET_tree", "master")
       \/ \E out \in ReadFailures : ret' = ErrorRet(out)
    /\ UNCHANGED <<op, issues, cvars, registry>>

\* GET git/trees/{tree_sha}, map, filter by path, slice the page
GetTreeReturn ==
    /\ TreeAt("GET_tree")
    /\ \/ \E out \in ReadFailures : ret' = ErrorRet(out)
       \/ \E tree \in RawTrees :
              ret' = [state |-> "ok", raw |-> tree, resolved |-> ret.resolved,
                      value |-> TreePage(TreePathFilter(GitHubMapTreeEntries(tree),
                                                        op.path), op)]
    /\ UNCHANGED <<op, issues, cvars, registry>>

TreeParams ==
    [ref : RefParams, path : PathParams, page : 0..3, per_page : 0..2]

NextTree ==
    \/ \E params \in TreeParams : GetTree(params)
    \/ GetTreeRefReturn
    \/ GetTreeMasterReturn
    \/ GetTreeReturn

SpecTree == Init /\ [][NextTree]_vars

\* ---------------------------------------------------------- getContent
\* a commit of one create action, with the empty content among the contents
ContentInputs ==
    {[branch |-> b, base_branch |-> Undef,
      actions |-> <<[action |-> "create", path |-> p, content |-> c,
                     previous_path |-> 0]>>] :
         b \in Branches, p \in Paths, c \in {"", "hi"}}

\* if (ref) params.ref = ref: without ref the backend reads the default branch
ContentRef(ref) == IF Truthy(ref) THEN ref ELSE "main"

\* GET /repos/{o}/{r}/contents/{path}: the file object of a blob
GitHubContentData(path, branch) ==
    [type |-> "file", path |-> path, sha |-> HeadTree(branch)[path],
     content |-> Base64Encode(HeadTree(branch)[path][1])]

\* github/mapper.ts mapFileContent, mapDirectoryContent
GitHubMapFileContent(data, decoded) ==
    [type |-> "file", path |-> data.path, content |-> decoded, sha |-> data.sha]
GitHubMapDirectoryContent(path, items) ==
    [type |-> "directory", path |-> path,
     entries |-> [i \in 1..Len(items) |->
                      [path |-> items[i].path,
                       type |-> IF items[i].type = "dir" THEN "directory" ELSE "file"]]]

\* if (data.type === 'file' && data.content) { decode; return mapFileContent }
\* return mapDirectoryContent(path, [data])
GitHubContentValue(path, data) ==
    IF data.type = "file" /\ Truthy(data.content)
    THEN GitHubMapFileContent(data, Base64Decode(data.content))
    ELSE GitHubMapDirectoryContent(path, <<data>>)

\* repository.getContent(repo, path, ref)
GetContent(path, ref) ==
    /\ Idle
    /\ op' = [name |-> "repository.getContent", adapter |-> "github",
              path |-> path, ref |-> ref]
    /\ ret' = PendingRet
    /\ UNCHANGED <<issues, cvars, registry>>

GetContentReturn ==
    /\ Awaiting("repository.getContent")
    /\ \E ans \in Answers(GetContentsAnswer(op.path, ContentRef(op.ref))) :
           ret' = IF ans.out = "ok"
                  THEN LET data == GitHubContentData(op.path, ContentRef(op.ref))
                       IN  OkRet(data, GitHubContentValue(op.path, data))
                  ELSE ErrorRet(ans.out)
    /\ UNCHANGED <<op, issues, cvars, registry>>

NextContent ==
    \/ \E in \in ContentInputs : Execute(1, in)
    \/ FastPutReturn(1)
    \/ \E p \in Paths, r \in Branches \cup {Undef} : GetContent(p, r)
    \/ GetContentReturn

SpecContent == Init /\ [][NextContent]_vars

\* ---------------------------------------------------------- claims C12..C20
Returned(name, a) ==
    /\ op.name = name
    /\ op.adapter = a
    /\ ret.state = "ok"

\* C12: GitHub mapPullRequest gives the state merged exactly when the merged
\* flag is true or merged_at is non-null, and the raw state otherwise.
C12_GitHubMergedState ==
    Returned("pull_requests.get", "github") =>
        /\ ret.value.state = "merged"
               <=> (ret.raw.merged = "true" \/ ret.raw.merged_at # JsNull)
        /\ ret.value.state # "merged" => ret.value.state = ret.raw.state

\* a closed pull request without the merged flag but with a merge timestamp
C12_Witness ==
    /\ Returned("pull_requests.get", "github")
    /\ ret.raw.state = "closed"
    /\ ret.raw.merged = "false"
    /\ ret.raw.merged_at # JsNull
    /\ ret.value.state = "merged"

\* C13: GitLab mapPullRequest gives merged whenever merged_at is non-null,
\* whatever the raw state; otherwise opened is open, merged is merged, closed
\* and locked are closed.
C13_GitLabMergedWheneverMergedAt ==
    Returned("pull_requests.get", "gitlab") =>
        ret.value.state =
            IF ret.raw.merged_at # JsNull THEN "merged"
            ELSE CASE ret.raw.state = "opened" -> "open"
                   [] ret.raw.state = "merged" -> "merged"
                   [] ret.raw.state \in {"closed", "locked"} -> "closed"

C14_Expected(status, conclusion) ==
    IF status = "completed"
    THEN CASE conclusion = "success" -> "success"
           [] conclusion = "failure" -> "failed"
           [] conclusion = "timed_out" -> "failed"
           [] conclusion = "cancelled" -> "canceled"
           [] conclusion = "skipped" -> "skipped"
           [] OTHER -> "pending"
    ELSE IF status = "in_progress" THEN "running" ELSE "pending"

RawOf(id) == CHOOSE j \in {ret.raw[i] : i \in 1..Len(ret.raw)} : j.id = id

\* C14: the GitHub pipeline status and the GitHub job status follow the same
\* table: a completed run by its conclusion, any other run by its status.
C14_GitHubStatusTable ==
    /\ Returned("ci.getPipeline", "github") =>
           ret.value.status = C14_Expected(ret.raw.status, ret.raw.conclusion)
    /\ Returned("ci.listJobs", "github") =>
           \A i \in 1..Len(ret.value) :
               LET raw == RawOf(ret.value[i].id)
               IN  ret.value[i].status = C14_Expected(raw.status, raw.conclusion)

\* a job that timed out is listed as failed
C14_Witness ==
    /\ Returned("ci.listJobs", "github")
    /\ \E i \in 1..Len(ret.value) :
           /\ RawOf(ret.value[i].id).conclusion = "timed_out"
           /\ RawOf(ret.value[i].id).status = "completed"
           /\ ret.value[i].status = "failed"

\* C15: the duration of a GitHub job is null exactly when a timestamp is
\* null; otherwise it is completed_at minus started_at in seconds, rounded to
\* the nearest second, negative when completed_at is the earlier one.
C15_JobDuration ==
    Returned("ci.listJobs", "github") =>
        \A i \in 1..Len(ret.value) :
            LET raw == RawOf(ret.value[i].id)
                d == ret.value[i].duration
            IN  /\ d.null <=> (raw.started_at = Null \/ raw.completed_at = Null)
                /\ ~d.null =>
                       LET ms == (raw.completed_at[1] - raw.started_at[1]) * 1000
                                 + raw.completed_at[2] - raw.started_at[2]
                       IN  /\ 2 * (1000 * d.value - ms) \in -999..1000
                           /\ ms % 1000 = 0 => d.value * 1000 = ms

\* a job whose completed_at is earlier than its started_at
C15_Witness ==
    /\ Returned("ci.listJobs", "github")
    /\ \E i \in 1..Len(ret.value) :
           /\ ~ret.value[i].duration.null
           /\ ret.value[i].duration.value < 0

C18_ListJobsOnlyStatus ==
    \A a \in Adapters :
        (Returned("ci.listJobs", a) /\ op.status # Undef) =>
            \A i \in 1..Len(ret.value) : ret.value[i].status = op.status

\* the backend sent two jobs and the one that is not failed was dropped
C18_Witness ==
    /\ Returned("ci.listJobs", "github")
    /\ op.status = "failed"
    /\ Len(ret.raw) = 2
    /\ Len(ret.value) = 1
    /\ ret.value[1].status = "failed"

\* C20: issues.create returns an open issue, and an issues.update that sets
\* the state returns an issue in that state.
C20_IssueStateRoundTrip ==
    \A a \in Adapters :
        /\ Returned("issues.create", a) => ret.value.state = "open"
        /\ (Returned("issues.update", a) /\ op.state # Undef) =>
               ret.value.state = op.state

C20_Witness ==
    /\ Returned("issues.update", "gitlab")
    /\ op.state = "closed"
    /\ issues["gitlab"] = "closed"
    /\ ret.value.state = "closed"


\* the entries of the backend tree that pass the path filter, in backend order
C17_Filtered ==
    SelectSeq(ret.raw,
              LAMBDA e : \/ op.path = NoPath
                         \/ e.path = op.path
                         \/ \E k \in 1..Len(e.path) :
                                /\ e.path[k] = "/"
                                /\ \/ SubSeq(e.path, 1, k) = op.path
                                   \/ SubSeq(e.path, 1, k - 1) = op.path)

\* C17: GitHub getTree returns the entries at positions [(p-1)*s, p*s) of the
\* filtered backend tree, in backend order, and nothing else.
C17_TreePage ==
    (op.name = "repository.getTree" /\ ret.state = "ok") =>
        LET p == IF op.page = 0 THEN 1 ELSE op.page
            s == IF op.per_page = 0 THEN 100 ELSE op.per_page
            M == Len(C17_Filtered)
            from == (p - 1) * s
        IN  /\ Len(ret.value) = IF M <= from THEN 0
                                ELSE IF M < p * s THEN M - from ELSE s
            /\ \A i \in 1..Len(ret.value) :
                   ret.value[i].path = C17_Filtered[from + i].path

\* the second page of size one of a filtered tree of two entries out of three
C17_Witness ==
    /\ op.name = "repository.getTree"
    /\ ret.state = "ok"
    /\ op.page = 2
    /\ op.per_page = 1
    /\ Len(ret.raw) = 3
    /\ Len(C17_Filtered) = 2
    /\ Len(ret.value) = 1
    /\ ret.value[1].path = C17_Filtered[2].path


\* C19: after a successful commit of the single action create(path, c) on a
\* branch, a getContent of that path on that branch that succeeds returns a
\* file whose content is c.
C19_CreateThenGetContent ==
    (/\ result[1].state = "ok"
     /\ Returned("repository.getContent", "github")
     /\ op.path = input[1].actions[1].path
     /\ ContentRef(op.ref) = input[1].branch) =>
        /\ ret.value.type = "file"
        /\ ret.value.content = input[1].actions[1].content


\* ======================================================================
\* GitLab repository.getContent: the file request and, from the catch, the
\* tree listing.  Error messages are tuples of characters.
\* ======================================================================
\* String.prototype.includes
Includes(s, sub) ==
    \E i \in 1..(Len(s) - Len(sub) + 1) : SubSeq(s, i, i + Len(sub) - 1) = sub

\* the errors GitLabClient.request throws for a failed file request:
\* GitLabError(response.status, extractErrorMessage(body) || statusText),
\* GitLabError(408, 'Request timeout')
GitLabFileErrors ==
    {[status |-> 404, message |-> <<"4", "0", "4", " ", "F", "i", "l", "e">>],
     [status |-> 404, message |-> <<"N", "o", "t", " ", "F", "o", "u", "n", "d">>],
     [status |-> 403, message |-> <<"4", "0", "3", " ", "F", "o", "r", "b">>],
     [status |-> 400, message |-> <<"r", "e", "f", " ", "v", "4", "0", "4">>],
     [status |-> 500, message |-> <<"5", "0", "0">>],
     [status |-> 408, message |-> <<"t", "i", "m", "e", "o", "u", "t">>]}

GitLabTreeErrors ==
    {[status |-> 404, message |-> <<"4", "0", "4", " ", "T", "r", "e", "e">>],
     [status |-> 500, message |-> <<"5", "0", "0">>]}

\* if (err instanceof Error && err.message.includes('404'))
CatchesNotFound(err) == Includes(err.message, <<"4", "0", "4">>)

GitLabThrow(err) == [state |-> "error", status |-> err.status, message |-> err.message]

\* GET /projects/{id}/repository/files/{path}: the file with its base64 content
GitLabRawFiles == {[file_path |-> p, content |-> c] : p \in Paths, c \in {"", "aGk="}}

\* gitlab/mapper.ts mapFileContent
GitLabMapFileContent(file, decoded) ==
    [type |-> "file", path |-> file.file_path, content |-> decoded]

\* GET /projects/{id}/repository/tree: the items under the path
GitLabRawTreeLists == {<<>>, <<[path |-> 1, type |-> "blob"]>>,
                       <<[path |-> 2, type |-> "blob"]>>,
                       <<[path |-> 2, type |-> "tree"], [path |-> 1, type |-> "blob"]>>}

\* gitlab/mapper.ts mapDirectoryContent, mapTreeEntry
GitLabMapDirectoryContent(path, items) ==
    [type |-> "directory", path |-> path,
     entries |-> [i \in 1..Len(items) |->
                      [path |-> items[i].path,
                       type |-> IF items[i].type = "tree" THEN "directory" ELSE "file"]]]

NoError == [status |-> 0, message |-> <<>>]

\* ret while getContent awaits: the requests sent so far and the error the
\* file request threw
GitLabContentPending(sent, file_error) ==
    [state |-> "pending", sent |-> sent, file_error |-> file_error]

GitLabContentDone(r, sent, file_error) ==
    [state |-> r.state, sent |-> sent, file_error |-> file_error, outcome |-> r]

\* repository.getContent(repo, path, ref)
GitLabGetContent(path, ref) ==
    /\ Idle
    /\ op' = [name |-> "repository.getContent", adapter |-> "gitlab",
              path |-> path, ref |-> ref]
    /\ ret' = GitLabContentPending(<<"GET_file">>, NoError)
    /\ UNCHANGED <<issues, cvars, registry>>

\* try { file = await client.get(files/...); return mapFileContent(...) }
\* catch (err) { if (... includes('404')) { items = await client.get(tree) } throw err }
GitLabFileReturn ==
    /\ op.name = "repository.getContent"
    /\ op.adapter = "gitlab"
    /\ ret.state = "pending"
    /\ ret.sent = <<"GET_file">>
    /\ \/ \E file \in {f \in GitLabRawFiles : f.file_path = op.path} :
              ret' = GitLabContentDone(
                         OkRet(file, GitLabMapFileContent(file, Base64Decode(file.content))),
                         ret.sent, NoError)
       \/ \E err \in GitLabFileErrors :
              ret' = IF CatchesNotFound(err)
                     THEN GitLabContentPending(<<"GET_file", "GET_tree">>, err)
                     ELSE GitLabContentDone(GitLabThrow(err), ret.sent, err)
    /\ UNCHANGED <<op, issues, cvars, registry>>

\* return mapDirectoryContent(path, items)
GitLabTreeListReturn ==
    /\ op.name = "repository.getContent"
    /\ op.adapter = "gitlab"
    /\ ret.state = "pending"
    /\ ret.sent = <<"GET_file", "GET_tree">>
    /\ \/ \E items \in GitLabRawTreeLists :
              ret' = GitLabContentDone(
                         OkRet(items, GitLabMapDirectoryContent(op.path, items)),
                         ret.sent, ret.file_error)
       \/ \E err \in GitLabTreeErrors :
              ret' = GitLabContentDone(GitLabThrow(err), ret.sent, ret.file_error)
    /\ UNCHANGED <<op, issues, cvars, registry>>

NextGitLabContent ==
    \/ \E p \in Paths, r \in Branches \cup {Undef} : GitLabGetContent(p, r)
    \/ GitLabFileReturn
    \/ GitLabTreeListReturn

SpecGitLabContent == Init /\ [][NextGitLabContent]_vars

\* C21: GitLab getContent sends the tree listing exactly when the file
\* request failed with status 404; any other failure of the file request
\* reaches the caller unchanged, without a tree listing.
C21_TreeListingIffStatus404 ==
    (/\ op.name = "repository.getContent"
     /\ op.adapter = "gitlab"
     /\ ret.state # "pending") =>
        /\ "GET_tree" \in {ret.sent[i] : i \in 1..Len(ret.sent)}
               <=> ret.file_error.status = 404
        /\ (ret.file_error # NoError /\ ret.file_error.status # 404) =>
               ret.outcome = GitLabThrow(ret.file_error)


\* ======================================================================
\* GitHubClient.parseRepo at the head of every repo-keyed operation.
\* Repo strings are tuples of characters.
\* ======================================================================
RepoStrings ==
    {<<"o", "/", "r">>, <<"o">>, <<>>, <<"o", "/", "r", "/", "x">>, <<"o", "/">>,
     <<"/", "r">>, <<"/">>, <<"o", "/", "/", "r">>}

\* String.prototype.split('/')
RECURSIVE SplitSlash(_)
SplitSlash(s) ==
    IF \A i \in 1..Len(s) : s[i] # "/" THEN <<s>>
    ELSE LET k == CHOOSE i \in 1..Len(s) :
                      s[i] = "/" /\ \A j \in 1..(i - 1) : s[j] # "/"
         IN  <<SubSeq(s, 1, k - 1)>> \o SplitSlash(SubSeq(s, k + 1, Len(s)))

\* client.ts parseRepo: if (parts.length !== 2) throw new GitHubError(400, ...)
ParseRepoThrows(repo) == Len(SplitSlash(repo)) # 2

\* the operations of the GitHub adapter that take a repo
RepoKeyedOps ==
    {"issues.get", "issues.list", "issues.create", "issues.update",
     "issues.createComment", "issues.listComments", "pull_requests.get",
     "pull_requests.list", "pull_requests.create", "pull_requests.getDiffs",
     "pull_requests.merge", "pull_requests.createComment",
     "pull_requests.listComments", "repository.getContent", "repository.getTree",
     "repository.commit", "repository.listCommits", "repository.createBranch",
     "repository.listBranches", "repository.searchCode", "ci.getPipeline",
     "ci.listPipelines", "ci.listJobs", "ci.getJobLog"}

BadRequest == 400

\* const { owner, repo: repo_name } = client.parseRepo(repo); await client...(...)
RepoCall(name, repo) ==
    /\ Idle
    /\ op' = [name |-> name, adapter |-> "github", repo |-> repo]
    /\ ret' = IF ParseRepoThrows(repo)
              THEN [state |-> "error", status |-> BadRequest,
                    code |-> gitStatusToCode(BadRequest), sent |-> 0]
              ELSE [state |-> "pending", sent |-> 1]
    /\ UNCHANGED <<issues, cvars, registry>>

\* the first backend request of the operation is answered
RepoCallReturn ==
    /\ op.name \in RepoKeyedOps
    /\ "repo" \in DOMAIN op
    /\ ret.state = "pending"
    /\ \E out \in {"ok"} \cup ReadFailures :
           ret' = [state |-> IF out = "ok" THEN "ok" ELSE "error",
                   status |-> HttpStatus(out),
                   code |-> gitStatusToCode(HttpStatus(out)), sent |-> 1]
    /\ UNCHANGED <<op, issues, cvars, registry>>

NextRepo ==
    \/ \E name \in RepoKeyedOps, repo \in RepoStrings : RepoCall(name, repo)
    \/ RepoCallReturn

SpecRepo == Init /\ [][NextRepo]_vars

\* owner/repo: exactly two non-empty segments separated by one slash
C22_WellFormed(repo) ==
    \E k \in 2..(Len(repo) - 1) :
        /\ repo[k] = "/"
        /\ \A i \in 1..Len(repo) : i # k => repo[i] # "/"

\* C22: a repo-keyed GitHub operation given a repo string that is not
\* owner/repo fails with status 400, code GITHUB_BAD_REQUEST, before any
\* backend request is sent.
C22_MalformedRepoRejected ==
    (op.name \in RepoKeyedOps /\ "repo" \in DOMAIN op /\ ~C22_WellFormed(op.repo)) =>
        /\ ret.state = "error"
        /\ ret.status = 400
        /\ ret.code = "GITHUB_BAD_REQUEST"
        /\ ret.sent = 0


\* ======================================================================
\* The list-returning operations together: issues.list, getTree, listJobs.
\* ======================================================================
MaxIssues == 2

\* the issues endpoint also returns pull requests, marked by pull_request
GitHubRawIssueLists ==
    UNION {{[i \in 1..n |-> [number |-> i, state |-> f[i][1], pull_request |-> f[i][2]]] :
                f \in [1..n -> {"open", "closed"} \X {Undef, "true"}]} :
               n \in 0..MaxIssues}

\* mapIssue: iid: issue.number, state: issue.state
GitHubMapListedIssue(issue) == [iid |-> issue.number] @@ GitHubMapIssue(issue)

\* data.filter((i) => !i.pull_request).map(mapIssue)
GitHubIssuesList(data) ==
    LET kept == SelectSeq(data, LAMBDA i : ~Truthy(i.pull_request))
    IN  [k \in 1..Len(kept) |-> GitHubMapListedIssue(kept[k])]

\* issues.list(repo, params)
IssuesList ==
    /\ Idle
    /\ op' = [name |-> "issues.list", adapter |-> "github"]
    /\ ret' = PendingRet
    /\ UNCHANGED <<issues, cvars, registry>>

IssuesListReturn ==
    /\ Awaiting("issues.list")
    /\ \/ \E out \in ReadFailures : ret' = ErrorRet(out)
       \/ \E data \in GitHubRawIssueLists : ret' = OkRet(data, GitHubIssuesList(data))
    /\ UNCHANGED <<op, issues, cvars, registry>>

NextLists ==
    \/ IssuesList
    \/ IssuesListReturn
    \/ \E a \in Adapters, s \in CanonicalStatuses \cup {Undef} : ListJobs(a, s)
    \/ ListJobsReturn
    \/ \E params \in TreeParams : GetTree(params)
    \/ GetTreeRefReturn
    \/ GetTreeMasterReturn
    \/ GetTreeReturn

SpecLists == Init /\ [][NextLists]_vars

\* the keys of the items of a list: the number of an issue, the id of a job,
\* the path of a tree entry
C23_RawKeys ==
    [i \in 1..Len(ret.raw) |->
         CASE op.name = "issues.list" -> <<ret.raw[i].number>>
           [] op.name = "ci.listJobs" -> <<ret.raw[i].id>>
           [] op.name = "repository.getTree" -> ret.raw[i].path]

C23_ValueKeys ==
    [i \in 1..Len(ret.value) |->
         CASE op.name = "issues.list" -> <<ret.value[i].iid>>
           [] op.name = "ci.listJobs" -> <<ret.value[i].id>>
           [] op.name = "repository.getTree" -> ret.value[i].path]

C23_ListOps == {"issues.list", "ci.listJobs", "repository.getTree"}

\* C23: the result of a list operation is the backend's sequence with items
\* removed, never reordered: the items of the result appear in the backend's
\* sequence at strictly increasing positions.
C23_BackendOrderKept ==
    (op.name \in C23_ListOps /\ ret.state = "ok") =>
        \E f \in [1..Len(ret.value) -> 1..Len(ret.raw)] :
            /\ \A i \in 1..Len(ret.value) : C23_RawKeys[f[i]] = C23_ValueKeys[i]
            /\ \A i, j \in 1..Len(ret.value) : i < j => f[i] < f[j]

\* a tree of three entries whose middle entry the path filter removed
C23_Witness ==
    /\ op.name = "repository.getTree"
    /\ ret.state = "ok"
    /\ Len(ret.raw) = 3
    /\ Len(ret.value) = 2
    /\ ret.value[1].path = ret.raw[1].path
    /\ ret.value[2].path = ret.raw[3].path


\* ======================================================================
\* Two invocations of GitHub mapJob on the same raw job.  The current time
\* of an invocation is any time not before the previous invocation.
\* ======================================================================
\* mapJob with its created_at: job.started_at || new Date().toISOString()
GitHubMapJobAt(job, now) ==
    [created_at |-> IF job.started_at # Null THEN job.started_at ELSE now]
        @@ GitHubMapJob(job)

MapJobFirst(job) ==
    /\ Idle
    /\ op' = [name |-> "mapJob", adapter |-> "github", job |-> job]
    /\ \E now \in Timestamps :
           ret' = [state |-> "pending", now |-> now, first |-> GitHubMapJobAt(job, now)]
    /\ UNCHANGED <<issues, cvars, registry>>

MapJobSecond ==
    /\ Awaiting("mapJob")
    /\ \E now \in Timestamps :
           /\ DateGetTime(ret.now) <= DateGetTime(now)
           /\ ret' = [state |-> "ok", now |-> now, first |-> ret.first,
                      second |-> GitHubMapJobAt(op.job, now)]
    /\ UNCHANGED <<op, issues, cvars, registry>>

NextPure ==
    \/ \E job \in GitHubRawJobs : MapJobFirst(job)
    \/ MapJobSecond

SpecPure == Init /\ [][NextPure]_vars

\* C24: two invocations of a mapper with equal raw input return equal
\* entities, whatever the current time.
C24_MapperPure ==
    (op.name = "mapJob" /\ ret.state = "ok") => ret.first = ret.second


\* ======================================================================
\* ToolRegistry: register, registerAll, execute.
\* ======================================================================
MaxTools == 2

\* a registry that never skips a tool for its read_only flag
ReadOnlyNeverSkips(reg, tool) == FALSE

\* register: if (this.options.read_only && !tool.read_only) return this
ReadOnlySkips(reg, tool) == reg.read_only /\ ~tool.read_only

\* register: if (this.filter_regex && !this.filter_regex.test(tool.name)) return this
FilterSkips(reg, tool) == tool.name \notin reg.filter

\* register: if (this.tools.has(tool.name)) throw new Error(...)
Duplicate(reg, tool) == \E t \in reg.tools : t.name = tool.name

\* register(tool): the registry afterwards
Registered(reg, tool) ==
    IF ReadOnlySkips(reg, tool) \/ FilterSkips(reg, tool) \/ Duplicate(reg, tool)
    THEN reg
    ELSE [reg EXCEPT !.tools = @ \cup {tool}]

RegisterThrows(reg, tool) ==
    /\ ~ReadOnlySkips(reg, tool)
    /\ ~FilterSkips(reg, tool)
    /\ Duplicate(reg, tool)

\* registerAll(tools): for (const tool of tools) this.register(tool); the
\* loop ends at the first register that throws
RECURSIVE RegisteredAll(_, _)
RegisteredAll(reg, tools) ==
    IF tools = <<>> \/ RegisterThrows(reg, Head(tools)) THEN reg
    ELSE RegisteredAll(Registered(reg, Head(tools)), Tail(tools))

RECURSIVE RegisterAllThrows(_, _)
RegisterAllThrows(reg, tools) ==
    /\ tools # <<>>
    /\ \/ RegisterThrows(reg, Head(tools))
       \/ RegisterAllThrows(Registered(reg, Head(tools)), Tail(tools))

ToolLists == UNION {[1..n -> ToolDefs] : n \in 0..MaxTools}

Register(tool) ==
    /\ op' = [name |-> "register", tools |-> <<tool>>]
    /\ ret' = [state |-> IF RegisterThrows(registry, tool) THEN "error" ELSE "ok",
               code |-> ""]
    /\ registry' = Registered(registry, tool)
    /\ UNCHANGED <<issues, cvars>>

RegisterAll(tools) ==
    /\ op' = [name |-> "registerAll", tools |-> tools]
    /\ ret' = [state |-> IF RegisterAllThrows(registry, tools) THEN "error" ELSE "ok",
               code |-> ""]
    /\ registry' = RegisteredAll(registry, tools)
    /\ UNCHANGED <<issues, cvars>>

\* execute(name, input, ctx): look the tool up, validate, invoke the handler
ExecuteTool(name, valid) ==
    /\ op' = [name |-> "execute", tools |-> <<>>, tool |-> name]
    /\ IF \A t \in registry.tools : t.name # name
       THEN /\ ret' = [state |-> "error", code |-> "TOOL_NOT_FOUND"]
            /\ UNCHANGED registry
       ELSE IF ~valid
       THEN /\ ret' = [state |-> "error", code |-> "VALIDATION_ERROR"]
            /\ UNCHANGED registry
       ELSE /\ \E st \in {"ok", "error"} :
                   ret' = [state |-> st, code |-> IF st = "ok" THEN "" ELSE "INTERNAL_ERROR"]
            /\ registry' = [registry EXCEPT !.invoked =
                               @ \cup {t \in registry.tools : t.name = name}]
    /\ UNCHANGED <<issues, cvars>>

NextRegistry ==
    \/ \E tool \in ToolDefs : Register(tool)
    \/ \E tools \in ToolLists : RegisterAll(tools)
    \/ \E name \in ToolNames, valid \in BOOLEAN : ExecuteTool(name, valid)

SpecRegistry == InitRegistry /\ [][NextRegistry]_vars

\* C25: a registry created in read-only mode holds only read_only tools
\* after any register and registerAll calls; executing a tool that is not
\* read_only returns TOOL_NOT_FOUND and its handler is never invoked.
C25_ReadOnlyRegistry ==
    registry.read_only =>
        /\ \A t \in registry.tools : t.read_only
        /\ \A t \in registry.invoked : t.read_only
        /\ (/\ op.name = "execute"
            /\ ~\E t \in registry.tools : t.name = op.tool /\ t.read_only) =>
               ret.code = "TOOL_NOT_FOUND"

\* in read-only mode registerAll was given a write tool and a read_only
\* tool and only the read_only one is in the registry
C25_Witness ==
    /\ registry.read_only
    /\ op.name = "registerAll"
    /\ Len(op.tools) = 2
    /\ ~op.tools[1].read_only
    /\ op.tools[2].read_only
    /\ registry.tools = {op.tools[2]}


\* C26: after a successful commit holding a move from p to q, with no other
\* action on p, the tree sent to the backend holds a null-hash entry for p
\* and the file no longer exists at p.
C26_MoveRemovesSource ==
    \A c \in Calls :
        \A i \in 1..Len(input[c].actions) :
            LET acts == input[c].actions
                p == acts[i].previous_path
            IN  (/\ result[c].state = "ok"
                 /\ acts[i].action = "move"
                 /\ \A j \in 1..Len(acts) : j # i => acts[j].path # p) =>
                    /\ commits[result[c].sha].tree[p] = Null
                    /\ Issued(c, "POST_trees") =>
                           \E k \in 1..Len(local[c].tree_items) :
                               /\ local[c].tree_items[k].path = p
                               /\ local[c].tree_items[k].sha = Null


\* C27: a commit given an explicit base_branch whose requests were all
\* answered by the backend itself (no server error, no timeout) returns a
\* Commit whose parent is the head of base_branch, and the target branch, created
\* when it did not exist, points to that commit; with one action as with several.
C27_BasedOnBaseBranch ==
    \A c \in Calls :
        (/\ pc[c] = "done"
         /\ SchemaValid(input[c])
         /\ input[c].base_branch # Undef
         /\ \A r \in answered[c] : r.out \notin {"server_error", "timeout"}) =>
            /\ result[c].state = "ok"
            /\ commits[result[c].sha].parents = <<InitRefs[input[c].base_branch]>>
            /\ refs[input[c].branch] = result[c].sha


\* C28: getTree with an explicit branch ref returns only the tree of that
\* branch, and asks for master only when no ref was given.
C28_ExplicitRefNoFallback ==
    op.name = "repository.getTree" =>
        /\ (ret.state = "ok" /\ op.ref # Undef) => ret.resolved = op.ref
        /\ (ret.state = "pending" /\ ret.at = "GET_master") => op.ref = Undef


\* ======================================================================
\* GitHub pullRequests.list and ci.listPipelines: the filter is translated
\* into a query parameter and the backend's answer is mapped.
\* ======================================================================
MaxListed == 2

PullRequestStates == {Undef, "open", "closed", "merged", "all"}

\* github mapPullRequestListParams: merged is sent as closed
PullRequestListState(state) == IF state = "merged" THEN "closed" ELSE state

\* GET /repos/{o}/{r}/pulls?state=...: the pull requests in that raw state,
\* the open ones when no state is sent
GitHubPullsAnswer(all, state) ==
    CASE state = "all" -> all
      [] state = Undef -> SelectSeq(all, LAMBDA pr : pr.state = "open")
      [] OTHER -> SelectSeq(all, LAMBDA pr : pr.state = state)

\* data.map(mapPullRequest)
GitHubMapPullRequests(data) ==
    [i \in 1..Len(data) |-> GitHubMapPullRequest(data[i])]

PullRequestLists == UNION {[1..n -> GitHubRawPullRequests] : n \in 0..MaxListed}

\* pull_requests.list(repo, {state})
PullRequestsList(state) ==
    /\ Idle
    /\ op' = [name |-> "pull_requests.list", adapter |-> "github", filter |-> state]
    /\ ret' = PendingRet
    /\ UNCHANGED <<issues, cvars, registry>>

PullRequestsListReturn ==
    /\ Awaiting("pull_requests.list")
    /\ \/ \E out \in ReadFailures : ret' = ErrorRet(out)
       \/ \E all \in PullRequestLists :
              LET data == GitHubPullsAnswer(all, PullRequestListState(op.filter))
              IN  ret' = OkRet(data, GitHubMapPullRequests(data))
    /\ UNCHANGED <<op, issues, cvars, registry>>

\* github mapPipelineListParams: the canonical status as a workflow run status
PipelineListStatus(status) ==
    CASE status = "pending" -> "queued"
      [] status = "running" -> "in_progress"
      [] status \in {"success", "failed", "canceled", "skipped"} -> "completed"
      [] OTHER -> Undef

\* GET /repos/{o}/{r}/actions/runs?status=...: the runs with that status or
\* conclusion
GitHubRunsAnswer(all, status) ==
    IF status = Undef THEN all
    ELSE SelectSeq(all, LAMBDA run : run.status = status \/ run.conclusion = status)

\* data.workflow_runs.map(mapPipeline)
GitHubMapPipelines(runs) == [i \in 1..Len(runs) |-> GitHubMapPipeline(runs[i])]

GitHubRunSample ==
    {[status |-> "completed", conclusion |-> "success"],
     [status |-> "completed", conclusion |-> "failure"],
     [status |-> "completed", conclusion |-> "cancelled"],
     [status |-> "completed", conclusion |-> "skipped"],
     [status |-> "in_progress", conclusion |-> JsNull],
     [status |-> "queued", conclusion |-> JsNull]}

RunLists == UNION {[1..n -> GitHubRunSample] : n \in 0..MaxListed}

\* ci.listPipelines(repo, {status})
ListPipelines(status) ==
    /\ Idle
    /\ op' = [name |-> "ci.listPipelines", adapter |-> "github", filter |-> status]
    /\ ret' = PendingRet
    /\ UNCHANGED <<issues, cvars, registry>>

ListPipelinesReturn ==
    /\ Awaiting("ci.listPipelines")
    /\ \/ \E out \in ReadFailures : ret' = ErrorRet(out)
       \/ \E all \in RunLists :
              LET data == GitHubRunsAnswer(all, PipelineListStatus(op.filter))
              IN  ret' = OkRet(data, GitHubMapPipelines(data))
    /\ UNCHANGED <<op, issues, cvars, registry>>

NextFilters ==
    \/ \E s \in PullRequestStates : PullRequestsList(s)
    \/ PullRequestsListReturn
    \/ \E s \in CanonicalStatuses \cup {Undef} : ListPipelines(s)
    \/ ListPipelinesReturn

SpecFilters == Init /\ [][NextFilters]_vars

\* C29: GitHub pullRequests.list with the state open, closed or merged
\* returns only pull requests of that canonical state.
C29_PullRequestsOnlyState ==
    (Returned("pull_requests.list", "github")
         /\ op.filter \in {"open", "closed", "merged"}) =>
        \A i \in 1..Len(ret.value) : ret.value[i].state = op.filter

\* C30: GitHub ci.listPipelines with a status returns only pipelines of that
\* canonical status.
C30_PipelinesOnlyStatus ==
    (Returned("ci.listPipelines", "github") /\ op.filter # Undef) =>
        \A i \in 1..Len(ret.value) : ret.value[i].status = op.filter

====
